---- MODULE Spec2Model ----
(***************************************************************************)
(* Model of biebie-cli: the scan / fingerprint / dedup pipeline of         *)
(* src/scanner.rs, and the render / upload tail of src/main.rs and         *)
(* src/uploader.rs.                                                        *)
(*                                                                         *)
(* Strings that the code inspects byte by byte (paths, MIME strings, map   *)
(* keys) are sequences of byte values, e.g. "r/a" is <<114, 47, 97>>.      *)
(* Only ASCII paths are modelled, so Path::display().to_string() and       *)
(* OsStr::to_str() keep the bytes unchanged.                               *)
(***************************************************************************)
EXTENDS Integers, Sequences, FiniteSets, TLC

(***************************************************************************)
(* Bounds                                                                  *)
(***************************************************************************)
\* largest number of files in the scanned tree
MaxFiles == 3

(***************************************************************************)
(* Program constants                                                       *)
(***************************************************************************)
LARGE_FILE_THRESHOLD == 10 * 1024 * 1024
VERY_LARGE_FILE_THRESHOLD == 100 * 1024 * 1024
\* should_process_file: "metadata.len() < 1024"
MIN_FILE_SIZE == 1024
\* compute_sample_hash: "let sample_size = 64 * 1024"
SAMPLE_SIZE == 64 * 1024

(***************************************************************************)
(* Byte strings                                                            *)
(***************************************************************************)
Max(S) == CHOOSE x \in S : \A y \in S : y <= x
Min2(a, b) == IF a <= b THEN a ELSE b

\* str::starts_with
StartsWith(s, prefix) ==
    /\ Len(prefix) <= Len(s)
    /\ \A i \in 1..Len(prefix) : s[i] = prefix[i]

\* Ord for String / str: bytewise lexicographic, a proper prefix is smaller
LexLess(a, b) ==
    \E i \in 1..(Min2(Len(a), Len(b)) + 1) :
        /\ \A j \in 1..(i - 1) : a[j] = b[j]
        /\ \/ i > Len(a) /\ i <= Len(b)
           \/ i <= Len(a) /\ i <= Len(b) /\ a[i] < b[i]

\* position of the last occurrence of byte c in s, 0 when absent
LastIndexOf(s, c) == Max({i \in 1..Len(s) : s[i] = c} \cup {0})

\* Path::file_name: the last component
FileName(path) == SubSeq(path, LastIndexOf(path, 47) + 1, Len(path))

\* Path::parent: the path without its last component ("" for a bare name)
ParentPath(path) ==
    LET k == LastIndexOf(path, 47)
    IN  IF k = 0 THEN << >>
        ELSE IF k = 1 THEN <<47>>
        ELSE SubSeq(path, 1, k - 1)

\* Path::components().count(): the root, a leading ".", and every other
\* non-empty component that is not "."
ComponentCount(path) ==
    LET n == Len(path)
        starts == {i \in 1..n : path[i] # 47 /\ (i = 1 \/ path[i - 1] = 47)}
        isDot(i) == path[i] = 46 /\ (i = n \/ path[i + 1] = 47)
    IN  Cardinality({i \in starts : i = 1 \/ ~isDot(i)})
        + (IF n > 0 /\ path[1] = 47 THEN 1 ELSE 0)

\* Path::extension: the part of the file name after its last '.', none when
\* the name has no '.' or only a leading one
Extension(path) ==
    LET name == FileName(path)
        k == LastIndexOf(name, 46)
    IN  IF k <= 1 THEN << >> ELSE SubSeq(name, k + 1, Len(name))

RECURSIVE Digits(_)
\* decimal rendering of a usize, as format!("{}", n) prints it
Digits(n) == IF n < 10 THEN <<48 + n>> ELSE Digits(n \div 10) \o <<48 + (n % 10)>>

\* all orderings of a finite set, as sequences
RECURSIVE Perms(_)
Perms(S) ==
    IF S = {} THEN {<< >>}
    ELSE UNION {{<<x>> \o p : p \in Perms(S \ {x})} : x \in S}

(***************************************************************************)
(* File contents                                                           *)
(***************************************************************************)
\* The bytes of a file, and every input of the hash, are written as runs:
\* <<v1, n1, v2, n2, ...>> is n1 bytes of value v1, then n2 bytes of value
\* v2, ...; no run is empty and neighbouring runs differ in value, so equal
\* byte strings are equal sequences.
Run(v, n) == IF n <= 0 THEN << >> ELSE <<v, n>>

\* the bytes of a followed by the bytes of b
Cat(a, b) ==
    IF a = << >> THEN b
    ELSE IF b = << >> THEN a
    ELSE IF a[Len(a) - 1] = b[1]
         THEN SubSeq(a, 1, Len(a) - 1) \o <<a[Len(a)] + b[2]>>
              \o SubSeq(b, 3, Len(b))
    ELSE a \o b

\* the runs of a sequence of single bytes
RECURSIVE RunsOf(_)
RunsOf(bytes) ==
    IF bytes = << >> THEN << >>
    ELSE Cat(<<Head(bytes), 1>>, RunsOf(Tail(bytes)))

\* the number of bytes
RECURSIVE ByteLen(_)
ByteLen(runs) ==
    IF runs = << >> THEN 0 ELSE runs[2] + ByteLen(SubSeq(runs, 3, Len(runs)))

\* the bytes at off .. off + n - 1, as many of them as there are
RECURSIVE Slice(_, _, _)
Slice(runs, off, n) ==
    IF runs = << >> \/ n <= 0 THEN << >>
    ELSE LET rest == SubSeq(runs, 3, Len(runs))
         IN  IF off >= runs[2] THEN Slice(rest, off - runs[2], n)
             ELSE LET take == Min2(runs[2] - off, n)
                  IN  Cat(Run(runs[1], take), Slice(rest, 0, n - take))

\* u64::saturating_sub
saturating_sub(a, b) == IF a > b THEN a - b ELSE 0

\* mutation of SampleOffsets: the last window is read at the middle offset
SampleOffsets_NoEnd(file_size) == <<0, file_size \div 2, file_size \div 2>>

\* beginning_offset, middle_offset, end_offset of compute_sample_hash
SampleOffsets(file_size) ==
    <<0, file_size \div 2, saturating_sub(file_size, SAMPLE_SIZE)>>

\* A file of the tree.  path: bytes of the path; size: metadata length in
\* bytes; data: the file's whole content; win: the bytes that full reads of
\* sample_size bytes at offset 0, size/2 and size - 64 KiB return.
FileRec(path, runs) ==
    [path |-> path, size |-> ByteLen(runs), data |-> runs,
     win |-> [k \in 1..3 |-> Slice(runs, SampleOffsets(ByteLen(runs))[k], SAMPLE_SIZE)]]

(***************************************************************************)
(* The directory tree                                                      *)
(***************************************************************************)
\* Candidate files: three files of the same 2000 bytes, a file below the
\* size floor, a hidden file and a video.
Universe ==
    { FileRec(<<114,47,97,46,116,120,116>>, Run(1, 2000)),          \* r/a.txt
      FileRec(<<114,47,100,47,98,46,116,120,116>>, Run(1, 2000)),   \* r/d/b.txt
      FileRec(<<114,47,100,47,99,46,106,112,103>>, Run(1, 2000)),   \* r/d/c.jpg
      FileRec(<<114,47,101,46,106,112,103>>, Run(2, 50)),           \* r/e.jpg
      FileRec(<<114,47,46,104>>, Run(3, 5000)),                     \* r/.h
      FileRec(<<114,47,100,47,102,46,109,112,52>>, Run(4, 3000)) }  \* r/d/f.mp4

\* the directory given on the command line
ScanRoot == <<114>>

Trees == {t \in SUBSET Universe : Cardinality(t) <= MaxFiles}

(***************************************************************************)
(* Pure functions of scanner.rs                                            *)
(***************************************************************************)
\* mime_guess::from_path(path).first_or_octet_stream().essence_str()
MimeOf(path) ==
    LET ext == Extension(path)
    IN  IF ext = <<116,120,116>> THEN <<116,101,120,116,47,112,108,97,105,110>>
        ELSE IF ext = <<106,112,103>> THEN <<105,109,97,103,101,47,106,112,101,103>>
        ELSE IF ext = <<109,112,52>> THEN <<118,105,100,101,111,47,109,112,52>>
        ELSE <<97,112,112,108,105,99,97,116,105,111,110,47,
               111,99,116,101,116,45,115,116,114,101,97,109>>

\* determine_file_type_fast; indexing byte 0 of an empty string panics
determine_file_type_fast(mime_str) ==
    IF Len(mime_str) = 0 THEN "panic"
    ELSE IF mime_str[1] = 105 /\ StartsWith(mime_str, <<105,109,97,103,101,47>>)
         THEN "image"
    ELSE IF mime_str[1] = 118 /\ StartsWith(mime_str, <<118,105,100,101,111,47>>)
         THEN "video"
    ELSE "other"

\* blake3 digest in hex: taken as collision-free, a tagged copy of the input
Blake3Hex(input) == <<0>> \o input

\* the k low bytes of n, lowest first
RECURSIVE LeBytes(_, _)
LeBytes(n, k) == IF k = 0 THEN << >> ELSE <<n % 256>> \o LeBytes(n \div 256, k - 1)

\* u64::to_le_bytes
ToLeBytes(n) == LeBytes(n, 8)

\* mutation of compute_sample_hash: the end window is hashed before the
\* middle one
compute_sample_hash_EndFirst(f) ==
    Blake3Hex(Cat(Cat(Cat(f.win[1],
                          IF f.size > SAMPLE_SIZE THEN f.win[3] ELSE << >>),
                      IF f.size > SAMPLE_SIZE * 2 THEN f.win[2] ELSE << >>),
                  RunsOf(ToLeBytes(f.size))))

\* compute_sample_hash: hasher.update with the bytes of each window in
\* order, then with the size
compute_sample_hash(f) ==
    Blake3Hex(Cat(Cat(Cat(f.win[1],
                          IF f.size > SAMPLE_SIZE * 2 THEN f.win[2] ELSE << >>),
                      IF f.size > SAMPLE_SIZE THEN f.win[3] ELSE << >>),
                  RunsOf(ToLeBytes(f.size))))

\* compute_hash_mmap: the whole mapped content
compute_hash_mmap(f) == Blake3Hex(f.data)

\* mutation of HashStrategy: the limits belong to the upper tier
HashStrategy_Inclusive(file_size) ==
    IF file_size >= VERY_LARGE_FILE_THRESHOLD THEN "sample"
    ELSE IF file_size >= LARGE_FILE_THRESHOLD THEN "mmap"
    ELSE "read"

\* the strategy choice of process_single_file_ultra_fast, by file size
HashStrategy(file_size) ==
    IF file_size > VERY_LARGE_FILE_THRESHOLD THEN "sample"
    ELSE IF file_size > LARGE_FILE_THRESHOLD THEN "mmap"
    ELSE "read"

\* the hash process_single_file_ultra_fast computes with that strategy
FileHash(f) ==
    IF HashStrategy(f.size) = "sample" THEN compute_sample_hash(f)
    ELSE IF HashStrategy(f.size) = "mmap" THEN compute_hash_mmap(f)
    ELSE Blake3Hex(f.data)

\* mutation of determine_optimal_thread_count: no minimum
determine_optimal_thread_count_NoFloor(cpu_count, physical_cores) ==
    Min2(cpu_count * 2, physical_cores * 4)

\* determine_optimal_thread_count, from num_cpus::get() and
\* num_cpus::get_physical()
determine_optimal_thread_count(cpu_count, physical_cores) ==
    LET optimal == Min2(cpu_count * 2, physical_cores * 4)
    IN  IF optimal > 4 THEN optimal ELSE 4

\* scan_folder: the thread_count it passes to
\* ThreadPoolBuilder::new().num_threads
ThreadPoolSize(cpu_count, physical_cores) ==
    determine_optimal_thread_count(cpu_count, physical_cores)

\* should_process_file; md_ok: entry.metadata() succeeded
should_process_file(f, md_ok) ==
    IF StartsWith(FileName(f.path), <<46>>) THEN FALSE
    ELSE IF md_ok /\ f.size < MIN_FILE_SIZE THEN FALSE
    ELSE TRUE

\* Option<FileMeta> of one file of a batch; Pending: the map has not
\* reached the file yet
Pending == [state |-> "pending"]
None == [state |-> "none"]
Some(meta) == [state |-> "some", meta |-> meta]

\* mutation of process_single_file_ultra_fast: a failed read is taken as an
\* empty content instead of ending the function
process_single_file_read_default(f, io) ==
    IF io = "metadata_err" THEN None
    ELSE Some([filename |-> f.path,
               folder |-> ParentPath(f.path),
               size |-> f.size,
               mime |-> MimeOf(f.path),
               hash |-> IF io = "read_err" THEN Blake3Hex(<< >>) ELSE FileHash(f),
               filetype |-> determine_file_type_fast(MimeOf(f.path))])

\* process_single_file_ultra_fast; io is the outcome of the file's system
\* calls: "metadata_err", "read_err" (open, read or map failed) or "ok"
process_single_file_ultra_fast(f, io) ==
    IF io = "metadata_err" THEN None
    ELSE IF io = "read_err" THEN None
    ELSE Some([filename |-> f.path,
               folder |-> ParentPath(f.path),
               size |-> f.size,
               mime |-> MimeOf(f.path),
               hash |-> FileHash(f),
               filetype |-> determine_file_type_fast(MimeOf(f.path))])

IoOutcomes == {"ok", "metadata_err", "read_err"}

\* mutation of ResultKey: the key leaves the file name out
ResultKey_NoFilename(batch_idx, filename) == Digits(batch_idx)

\* the key of the shared result map: format!("{}_{}", batch_idx, filename)
ResultKey(batch_idx, filename) == Digits(batch_idx) \o <<95>> \o filename

(***************************************************************************)
(* Maps and sorting                                                        *)
(***************************************************************************)
\* HashMap / DashMap insert: the value of an existing key is replaced
MapInsert(map, key, value) ==
    [k \in DOMAIN map \cup {key} |-> IF k = key THEN value ELSE map[k]]

EmptyMap == [k \in {} |-> 0]

\* mutation of StoreResult: the key has no separator between the batch
\* index and the path
StoreResult_NoSeparator(map, batch_idx, file_meta) ==
    MapInsert(map, Digits(batch_idx) \o file_meta.filename, file_meta)

\* let key = format!("{}_{}", batch_idx, file_meta.filename);
\* results.insert(key, file_meta)
StoreResult(map, batch_idx, file_meta) ==
    MapInsert(map, ResultKey(batch_idx, file_meta.filename), file_meta)

\* mutation of PushEntry: the entry replaces the files of its directory
PushEntry_Replace(map, parent, path) == MapInsert(map, parent, <<path>>)

\* dir_file_map.entry(parent).or_insert_with(Vec::new).push(entry)
PushEntry(map, parent, path) ==
    IF parent \in DOMAIN map
    THEN [map EXCEPT ![parent] = Append(@, path)]
    ELSE MapInsert(map, parent, <<path>>)

\* mutation of DeeperFirst: the key is the depth itself, not its Reverse
DeeperFirst_Shallow(a, b) == a.depth < b.depth

\* the order of sort_by_key(|batch| Reverse(batch.depth))
DeeperFirst(a, b) == a.depth > b.depth

RECURSIVE InsertBatch(_, _)
\* a batch placed after every batch of the sorted sequence that it is not
\* deeper than (a stable insertion)
InsertBatch(x, sorted) ==
    IF sorted = << >> THEN <<x>>
    ELSE IF DeeperFirst(x, Head(sorted)) THEN <<x>> \o sorted
    ELSE <<Head(sorted)>> \o InsertBatch(x, Tail(sorted))

RECURSIVE SortBatches(_)
\* batches.sort_by_key(|batch| Reverse(batch.depth)): a stable sort
SortBatches(batches) ==
    IF batches = << >> THEN << >>
    ELSE InsertBatch(batches[Len(batches)],
                     SortBatches(SubSeq(batches, 1, Len(batches) - 1)))

\* the order of sort_by(|a, b| a.filename.cmp(&b.filename))
FilenameLess(a, b) == LexLess(a.filename, b.filename)

\* mutation of SortByFilename: the records stay in the map's order
SortByFilename_Unsorted(records) == records

\* final_results.sort_by(|a, b| a.filename.cmp(&b.filename)): a stable
\* sort; a record goes after the records of smaller filename and after the
\* earlier records of the same filename
SortByFilename(records) ==
    LET n == Len(records)
        before(i) == {j \in 1..n :
                        \/ FilenameLess(records[j], records[i])
                        \/ /\ j < i
                           /\ records[j].filename = records[i].filename}
    IN  [k \in 1..n |->
            records[CHOOSE i \in 1..n : Cardinality(before(i)) = k - 1]]

(***************************************************************************)
(* State                                                                   *)
(***************************************************************************)
VARIABLES
    tree,           \* the files under the root; the same for every run
    walk_order,     \* the files in the order the directories list them
    run,            \* "first" or "rescan": which run of the program this is
    prev_tuples,    \* rescan only: the tuple multiset of the first inventory
    io_fault,       \* some lookup or read of either run has failed
    pc,             \* main: start, discovered, scope, returned, rendered, exited
    disc_md,        \* paths whose entry.metadata() succeeded in the walk
    dir_batches,    \* Vec<DirBatch> returned by discover_nested_structure
    batch_results,  \* per batch task: Vec<Option<FileMeta>>
    io_failed,      \* paths whose metadata, open, read or map failed in a task
    task_pc,        \* per batch task: map, check, insert_seen, insert_result, finished
    task_idx,       \* per batch task: position of the admission loop
    seen_hashes,    \* DashMap hash -> filename (the dedup registry)
    results,        \* DashMap key -> FileMeta
    progress,       \* position of the progress bar
    inventory,      \* Vec<FileMeta> returned by scan_folder
    rendered,       \* what main has printed or written
    resp,           \* outcome of the upload request
    exit_code,      \* process exit status
    call,           \* a function called on its own: name, arguments, result
    pool            \* thread pool: started job -> the frame it runs on top of

vars == <<tree, walk_order, run, prev_tuples, io_fault, pc, disc_md, dir_batches,
          batch_results, io_failed, task_pc, task_idx, seen_hashes, results, progress,
          inventory, rendered, resp, exit_code, call, pool>>

scan_vars == <<disc_md, dir_batches, batch_results, io_failed, task_pc, task_idx,
               seen_hashes, results, progress, inventory>>

main_vars == <<rendered, resp, exit_code>>

FileAt(path) == CHOOSE f \in tree : f.path = path

\* every directory on the way from the root to a file of the tree
RECURSIVE Ancestors(_)
Ancestors(path) ==
    IF Len(path) <= Len(ScanRoot) THEN {}
    ELSE {ParentPath(path)} \cup Ancestors(ParentPath(path))

\* the entries WalkDir yields: the directories and the files
WalkEntries ==
    {[path |-> d, is_file |-> FALSE] :
        d \in {ScanRoot} \cup UNION {Ancestors(f.path) : f \in tree}}
    \cup {[path |-> f.path, is_file |-> TRUE] : f \in tree}

\* the (fingerprint, size, content_type, category) multiset of an inventory
TupleOf(r) == <<r.hash, r.size, r.mime, r.filetype>>
TupleBag(records) ==
    [t \in {TupleOf(records[i]) : i \in DOMAIN records} |->
        Cardinality({i \in DOMAIN records : TupleOf(records[i]) = t})]

\* the orders in which a walk can yield the files of the tree: any order
\* inside a directory; the directories among themselves in one fixed order,
\* since the batches do not depend on it
WalkOrders ==
    {w \in Perms({f.path : f \in tree}) :
        \A i, j \in DOMAIN w :
            i < j => ~LexLess(ParentPath(w[j]), ParentPath(w[i]))}

\* main has not reached its output step
NotRendered == [format |-> "none", records |-> << >>]

\* no function has been called on its own
NoCall == [fn |-> "none", arg |-> << >>, out |-> << >>]

Init ==
    /\ call = NoCall
    /\ pool = EmptyMap
    /\ tree \in Trees
    /\ walk_order \in WalkOrders
    /\ run = "first"
    /\ prev_tuples = EmptyMap
    /\ io_fault = FALSE
    /\ pc = "start"
    /\ disc_md = {}
    /\ dir_batches = << >>
    /\ batch_results = << >>
    /\ io_failed = {}
    /\ task_pc = << >>
    /\ task_idx = << >>
    /\ seen_hashes = EmptyMap
    /\ results = EmptyMap
    /\ progress = 0
    /\ inventory = << >>
    /\ rendered = NotRendered
    /\ resp = "not_sent"
    /\ exit_code = -1

(***************************************************************************)
(* scan_folder                                                             *)
(***************************************************************************)
\* mutation of Accepted: every regular file passes
Accepted_AnyFile(entry, md) == entry.is_file

\* the filter of the walk loop: entry.file_type().is_file() &&
\* should_process_file(&entry)
Accepted(entry, md) ==
    entry.is_file /\ should_process_file(FileAt(entry.path), entry.path \in md)

RECURSIVE GroupByParent(_, _, _)
\* the walk loop of discover_nested_structure: [files, depths] after the
\* entries of walk that pass the filter were added to the maps acc
GroupByParent(walk, md, acc) ==
    IF walk = << >> THEN acc
    ELSE LET entry == Head(walk)
             parent == ParentPath(entry.path)
         IN  IF Accepted(entry, md)
             THEN GroupByParent(Tail(walk), md,
                     [files |-> PushEntry(acc.files, parent, entry.path),
                      depths |-> MapInsert(acc.depths, parent,
                                           ComponentCount(entry.path))])
             ELSE GroupByParent(Tail(walk), md, acc)

\* the batch built from one key of dir_file_map
MakeBatch(maps, path) ==
    [path |-> path,
     files |-> maps.files[path],
     depth |-> IF path \in DOMAIN maps.depths THEN maps.depths[path] ELSE 0]

\* the entries in the order the walk yields them: the directories, and the
\* files in walk_order
Walk ==
    LET dirs == {e \in WalkEntries : ~e.is_file}
        d == CHOOSE q \in Perms(dirs) : TRUE
    IN  d \o [i \in DOMAIN walk_order |-> [path |-> walk_order[i], is_file |-> TRUE]]

\* the maps the walk loop builds, for the metadata outcomes md
GroupedMaps(md) ==
    GroupByParent(Walk, md, [files |-> EmptyMap, depths |-> EmptyMap])

\* the batches in the iteration order iter of dir_file_map, then sorted
BatchesOf(maps, iter) ==
    SortBatches([i \in 1..Len(iter) |-> MakeBatch(maps, iter[i])])

\* discover_nested_structure: the walk yields the entries; each metadata
\* lookup of the filter succeeds or fails; the grouping map iterates in any
\* order; then the sort by depth
Discover ==
    /\ pc = "start"
    /\ \E md \in SUBSET {f.path : f \in tree} :
       LET maps == GroupedMaps(md)
       IN  \E iter \in Perms(DOMAIN maps.files) :
               /\ disc_md' = md
               /\ dir_batches' = BatchesOf(maps, iter)
               /\ io_fault' = (io_fault \/ \E f \in tree :
                                   /\ ~StartsWith(FileName(f.path), <<46>>)
                                   /\ f.path \notin md)
    /\ pc' = "discovered"
    /\ UNCHANGED <<call, pool, tree, walk_order, run, prev_tuples, batch_results, io_failed,
                   task_pc, task_idx, seen_hashes, results, progress, inventory,
                   main_vars>>

\* scan_folder after discovery: return an empty Vec when there is no batch,
\* else create the registry and spawn one task per batch in the scope
Dispatch ==
    /\ pc = "discovered"
    /\ IF dir_batches = << >>
       THEN /\ pc' = "returned"
            /\ UNCHANGED <<batch_results, task_pc, task_idx>>
       ELSE /\ pc' = "scope"
            /\ batch_results' = [b \in DOMAIN dir_batches |->
                                   [i \in DOMAIN dir_batches[b].files |-> Pending]]
            /\ task_pc' = [b \in DOMAIN dir_batches |-> "map"]
            /\ task_idx' = [b \in DOMAIN dir_batches |-> 1]
    /\ inventory' = << >>
    /\ seen_hashes' = EmptyMap
    /\ results' = EmptyMap
    /\ UNCHANGED <<call, pool, tree, walk_order, run, prev_tuples, io_fault, disc_md, dir_batches,
                   io_failed, progress, main_vars>>

(***************************************************************************)
(* process_directory_batch_scoped: one task per batch                      *)
(***************************************************************************)
\* one element of the par_iter map: process_single_file_ultra_fast with the
\* outcome io of its system calls
ProcessFileIo(b, i, io) ==
    /\ pc = "scope"
    /\ task_pc[b] = "map"
    /\ batch_results[b][i] = Pending
    /\ batch_results' = [batch_results EXCEPT ![b][i] =
           process_single_file_ultra_fast(FileAt(dir_batches[b].files[i]), io)]
    /\ io_fault' = (io_fault \/ io # "ok")
    /\ io_failed' = IF io = "ok" THEN io_failed
                    ELSE io_failed \cup {dir_batches[b].files[i]}
    /\ UNCHANGED <<call, tree, walk_order, run, prev_tuples, pc, disc_md, dir_batches, task_pc,
                   task_idx, seen_hashes, results, progress, inventory, main_vars>>

ProcessFile(b, i) ==
    /\ \E io \in IoOutcomes : ProcessFileIo(b, i, io)
    /\ UNCHANGED pool

\* the number of Some(_) among the results of a batch
ProcessedCount(rs) == Cardinality({i \in DOMAIN rs : rs[i].state = "some"})

\* mutation of BulkProgress: the task does not wait for the files of its
\* batch
BulkProgress_Early(b) ==
    /\ pc = "scope"
    /\ task_pc[b] = "map"
    /\ progress' = progress + ProcessedCount(batch_results[b])
    /\ task_pc' = [task_pc EXCEPT ![b] = "check"]
    /\ UNCHANGED <<call, pool, tree, walk_order, run, prev_tuples, io_fault, pc, disc_md, dir_batches,
                   batch_results, io_failed, task_idx, seen_hashes, results, inventory,
                   main_vars>>

\* collect() has every result of the batch; one progress_bar.inc for the
\* batch; the admission loop starts
BulkProgress(b) ==
    /\ pc = "scope"
    /\ task_pc[b] = "map"
    /\ \A i \in DOMAIN batch_results[b] : batch_results[b][i] # Pending
    /\ progress' = progress + ProcessedCount(batch_results[b])
    /\ task_pc' = [task_pc EXCEPT ![b] = "check"]
    /\ UNCHANGED <<call, pool, tree, walk_order, run, prev_tuples, io_fault, pc, disc_md, dir_batches,
                   batch_results, io_failed, task_idx, seen_hashes, results, inventory,
                   main_vars>>

\* the admission loop moves to its next element, or ends the task
NextElement(b) ==
    /\ task_idx' = [task_idx EXCEPT ![b] = @ + 1]
    /\ task_pc' = [task_pc EXCEPT ![b] =
           IF task_idx[b] + 1 > Len(batch_results[b]) THEN "finished" ELSE "check"]

\* mutation of AdmitCheckStep: the loop does not look the hash up
AdmitCheckStep_NoLookup(b) ==
    /\ pc = "scope"
    /\ task_pc[b] = "check"
    /\ LET r == batch_results[b][task_idx[b]]
       IN  IF r.state = "some"
           THEN /\ task_pc' = [task_pc EXCEPT ![b] = "insert_seen"]
                /\ UNCHANGED task_idx
           ELSE NextElement(b)
    /\ UNCHANGED <<call, tree, walk_order, run, prev_tuples, io_fault, pc, disc_md, dir_batches,
                   batch_results, io_failed, seen_hashes, results, progress, inventory,
                   main_vars>>

\* the head of one loop iteration: skip a None, skip a hash that
\* seen_hashes.contains_key finds, else go on to the inserts
AdmitCheckStep(b) ==
    /\ pc = "scope"
    /\ task_pc[b] = "check"
    /\ LET r == batch_results[b][task_idx[b]]
       IN  IF r.state = "some" /\ r.meta.hash \notin DOMAIN seen_hashes
           THEN /\ task_pc' = [task_pc EXCEPT ![b] = "insert_seen"]
                /\ UNCHANGED task_idx
           ELSE NextElement(b)
    /\ UNCHANGED <<call, tree, walk_order, run, prev_tuples, io_fault, pc, disc_md, dir_batches,
                   batch_results, io_failed, seen_hashes, results, progress, inventory,
                   main_vars>>

AdmitCheck(b) == AdmitCheckStep(b) /\ UNCHANGED pool

\* seen_hashes.insert(hash, filename)
InsertSeen(b) ==
    /\ pc = "scope"
    /\ task_pc[b] = "insert_seen"
    /\ LET m == batch_results[b][task_idx[b]].meta
       IN  seen_hashes' = MapInsert(seen_hashes, m.hash, m.filename)
    /\ task_pc' = [task_pc EXCEPT ![b] = "insert_result"]
    /\ UNCHANGED <<call, pool, tree, walk_order, run, prev_tuples, io_fault, pc, disc_md, dir_batches,
                   batch_results, io_failed, task_idx, results, progress, inventory,
                   main_vars>>

\* results.insert(key, file_meta), the end of the loop iteration
InsertResultStep(b) ==
    /\ pc = "scope"
    /\ task_pc[b] = "insert_result"
    /\ LET m == batch_results[b][task_idx[b]].meta
       IN  results' = StoreResult(results, b - 1, m)
    /\ NextElement(b)
    /\ UNCHANGED <<call, tree, walk_order, run, prev_tuples, io_fault, pc, disc_md, dir_batches,
                   batch_results, io_failed, seen_hashes, progress, inventory, main_vars>>

InsertResult(b) == InsertResultStep(b) /\ UNCHANGED pool

\* total_files of scan_folder: the sum of the lengths of the batches
RECURSIVE SumFiles(_)
SumFiles(batches) ==
    IF batches = << >> THEN 0
    ELSE Len(Head(batches).files) + SumFiles(Tail(batches))

TotalFiles == SumFiles(dir_batches)

\* mutation of Collect: the result map is read without the join of the
\* scope
Collect_NoJoin ==
    /\ pc = "scope"
    /\ inventory' \in
           {SortByFilename([i \in 1..Len(order) |-> results[order[i]]]) :
               order \in Perms(DOMAIN results)}
    /\ progress' = TotalFiles
    /\ pc' = "returned"
    /\ UNCHANGED <<call, pool, tree, walk_order, run, prev_tuples, io_fault, disc_md, dir_batches,
                   batch_results, io_failed, task_pc, task_idx, seen_hashes, results,
                   main_vars>>

\* process_nested_folders_with_scope after the scope has joined: the values
\* of the result map in its iteration order, which is any order, sorted by
\* filename; then scan_folder up to its return:
\* progress_bar.finish_with_message puts the bar at its length, total_files
Collect ==
    /\ pc = "scope"
    /\ \A b \in DOMAIN task_pc : task_pc[b] = "finished"
    /\ inventory' \in
           {SortByFilename([i \in 1..Len(order) |-> results[order[i]]]) :
               order \in Perms(DOMAIN results)}
    /\ progress' = TotalFiles
    /\ pc' = "returned"
    /\ UNCHANGED <<call, pool, tree, walk_order, run, prev_tuples, io_fault, disc_md, dir_batches,
                   batch_results, io_failed, task_pc, task_idx, seen_hashes, results,
                   main_vars>>

(***************************************************************************)
(* main after the scan, and upload_metadata                                *)
(***************************************************************************)
\* the ways main can be asked to output: format, and whether to a file
OutputChoices ==
    {[format |-> "console", to_file |-> FALSE],
     [format |-> "json", to_file |-> FALSE], [format |-> "json", to_file |-> TRUE],
     [format |-> "csv", to_file |-> FALSE], [format |-> "csv", to_file |-> TRUE]}

\* the match on args.output: the records are printed, or written to the
\* output file; a failed write panics (expect)
Render ==
    /\ pc = "returned"
    /\ \E out \in OutputChoices : \E write_ok \in BOOLEAN :
        /\ out.to_file \/ write_ok
        /\ IF write_ok
           THEN /\ rendered' = [format |-> out.format, records |-> inventory]
                /\ pc' = "rendered"
                /\ exit_code' = exit_code
           ELSE /\ rendered' = rendered
                /\ pc' = "exited"
                /\ exit_code' = 101
    /\ UNCHANGED <<call, pool, tree, walk_order, run, prev_tuples, io_fault, scan_vars, resp>>

\* what the request of upload_metadata can come back with
Responses == {"success", "http_error", "transport_error"}

\* mutation of upload_metadata: a transport error is only logged
upload_metadata_logged(files, response) == "Ok"

\* upload_metadata: the Result it returns, for a slice of files and the
\* outcome of send(); no request is made for an empty slice
upload_metadata(files, response) ==
    IF files = << >> THEN "Ok"
    ELSE IF response = "transport_error" THEN "Err"
    ELSE "Ok"

\* the exit status main ends with after the upload step
ExitStatus(result) == IF result = "Err" THEN 1 ELSE 0

\* the tail of main: without --api the run ends; with it upload_metadata
\* runs and an Err ends the process with status 1
Upload ==
    /\ pc = "rendered"
    /\ \E api \in BOOLEAN :
        IF ~api
        THEN /\ resp' = "not_sent"
             /\ exit_code' = 0
        ELSE \E response \in Responses :
             /\ resp' = IF inventory = << >> THEN "not_sent" ELSE response
             /\ exit_code' = ExitStatus(upload_metadata(inventory, response))
    /\ pc' = "exited"
    /\ UNCHANGED <<call, pool, tree, walk_order, run, prev_tuples, io_fault, scan_vars, rendered>>

\* the program is run a second time on the unchanged tree
Rerun ==
    /\ pc = "exited"
    /\ run = "first"
    /\ run' = "rescan"
    /\ prev_tuples' = TupleBag(inventory)
    /\ pc' = "start"
    /\ disc_md' = {}
    /\ dir_batches' = << >>
    /\ batch_results' = << >>
    /\ io_failed' = {}
    /\ task_pc' = << >>
    /\ task_idx' = << >>
    /\ seen_hashes' = EmptyMap
    /\ results' = EmptyMap
    /\ progress' = 0
    /\ inventory' = << >>
    /\ rendered' = NotRendered
    /\ resp' = "not_sent"
    /\ exit_code' = -1
    /\ UNCHANGED <<call, pool, tree, walk_order, io_fault>>

Next ==
    \/ Discover
    \/ Dispatch
    \/ \E b \in DOMAIN batch_results :
           \E i \in DOMAIN batch_results[b] : ProcessFile(b, i)
    \/ \E b \in DOMAIN task_pc : BulkProgress(b)
    \/ \E b \in DOMAIN task_pc : AdmitCheck(b)
    \/ \E b \in DOMAIN task_pc : InsertSeen(b)
    \/ \E b \in DOMAIN task_pc : InsertResult(b)
    \/ Collect
    \/ Render
    \/ Upload
    \/ Rerun

Spec == Init /\ [][Next]_vars

(***************************************************************************)
(* Functions called on their own                                           *)
(***************************************************************************)
\* every variable but call
prog_vars == <<tree, walk_order, run, prev_tuples, io_fault, pc, disc_md,
               dir_batches, batch_results, io_failed, task_pc, task_idx,
               seen_hashes, results, progress, inventory, rendered, resp,
               exit_code, pool>>

\* file sizes around the limits of the code
SizeSamples ==
    {0, 1023, 1024, 65536, 65537, 131072, 131073, 10485759, 10485760,
     10485761, 104857599, 104857600, 104857601, 209715200}

\* the offsets between which the contents of one size differ
MarkPoints(n) ==
    {x \in {0, 1, SAMPLE_SIZE - 1, SAMPLE_SIZE,
            (n \div 2) - 1, n \div 2, (n \div 2) + SAMPLE_SIZE,
            n - SAMPLE_SIZE - 1, n - SAMPLE_SIZE, n - 1, n} : 0 <= x /\ x <= n}

\* File contents.  The base content of a size is all bytes 0; [size, lo,
\* hi] is the content of that size with the bytes lo..hi-1 set to 1
\* (lo = hi = 0: the base itself).
BaseOf(n) == [size |-> n, lo |-> 0, hi |-> 0]

Contents ==
    UNION {{BaseOf(n)} \cup
           {[size |-> n, lo |-> r[1], hi |-> r[2]] :
               r \in {q \in MarkPoints(n) \X MarkPoints(n) : q[1] < q[2]}}
           : n \in SizeSamples}

\* the whole of a content
ContentRuns(c) ==
    Cat(Cat(Run(0, c.lo), Run(1, c.hi - c.lo)), Run(0, c.size - c.hi))

\* the n bytes of a content from offset off
Bytes(c, off, n) == Slice(ContentRuns(c), off, n)

\* what one read call returns
ReadOutcomes == {"full", "short", "err"}

\* file.read_at(&mut buffer, offset) with a buffer of sample_size bytes:
\* &buffer[..bytes_read]; a short read returns less than is there
read_at(c, offset, outcome) ==
    LET there == Min2(SAMPLE_SIZE, saturating_sub(c.size, offset))
    IN  Bytes(c, offset, IF outcome = "short" THEN there \div 2 ELSE there)

\* the file as the hashing strategies see it
HashFile(c, rd) ==
    [size |-> c.size,
     data |-> Bytes(c, 0, c.size),
     win  |-> [k \in 1..3 |-> read_at(c, SampleOffsets(c.size)[k], rd[k])]]

\* which of the three windows compute_sample_hash reads
WindowRead(file_size) ==
    <<TRUE, file_size > SAMPLE_SIZE * 2, file_size > SAMPLE_SIZE>>

\* The three reads of compute_sample_hash with their ? operators, the size
\* update and the return value.  io.open: File::open succeeded; io.rd: the
\* outcome of each read.  reads: the offsets read at, in order.
SampleReads(c, io) ==
    LET inc == WindowRead(c.size)
        bad == {k \in 1..3 : inc[k] /\ io.rd[k] = "err"}
        last == IF bad = {} THEN 3 ELSE CHOOSE k \in bad : \A j \in bad : k <= j
        done == SelectSeq(<<1, 2, 3>>, LAMBDA k : inc[k] /\ k <= last)
        offs == [i \in 1..Len(done) |-> SampleOffsets(c.size)[done[i]]]
    IN  IF ~io.open THEN [result |-> "Err", hash |-> << >>, reads |-> << >>]
        ELSE IF bad # {} THEN [result |-> "Err", hash |-> << >>, reads |-> offs]
        ELSE [result |-> "Ok",
              hash |-> compute_sample_hash(HashFile(c, io.rd)),
              reads |-> offs]

\* compute_sample_hash built for macOS, other unix, Windows or anything
\* else: no advisory call
compute_sample_hash_portable(c, io) == SampleReads(c, io)

\* the posix_fadvise calls the Linux build makes, in order: none when
\* File::open fails; else one RANDOM and a WILLNEED for each window of the
\* size, before the reads; then, unless the ? of a read has returned, a
\* DONTNEED for each window
HintCalls(file_size, io) ==
    LET inc == WindowRead(file_size)
        w == SelectSeq(<<1, 2, 3>>, LAMBDA k : inc[k])
        read_failed == \E k \in 1..3 : inc[k] /\ io.rd[k] = "err"
    IN  IF ~io.open THEN << >>
        ELSE <<"random">> \o [i \in 1..Len(w) |-> "willneed"]
             \o (IF read_failed THEN << >>
                 ELSE [i \in 1..Len(w) |-> "dontneed"])

\* The statements of the Linux block of compute_sample_hash, in program
\* order: posix_fadvise RANDOM over the file, a WILLNEED for each window of
\* the size, the read of each window, a DONTNEED for each window.
LinuxStatements(file_size) ==
    LET inc == WindowRead(file_size)
        off == SampleOffsets(file_size)
        w == SelectSeq(<<1, 2, 3>>, LAMBDA k : inc[k])
        each(op) == [i \in 1..Len(w) |->
                        [op |-> op, k |-> w[i], offset |-> off[w[i]]]]
    IN  <<[op |-> "random", k |-> 0, offset |-> 0]>>
        \o each("willneed") \o each("read") \o each("dontneed")

\* the return code of posix_fadvise: 0, or an error number (EINVAL)
FadviseRc(fails) == IF fails THEN 22 ELSE 0

\* mutation of Fadvise: the return code is checked and an error returned
Fadvise_Checked(st, advice, offset, rc) ==
    [st EXCEPT !.hints = Append(@, <<advice, offset, rc>>),
               !.result = IF rc # 0 THEN "Err" ELSE @]

\* unsafe { libc::posix_fadvise(fd, offset, len, advice); }: the call is
\* made and its return code is dropped
Fadvise(st, advice, offset, rc) ==
    [st EXCEPT !.hints = Append(@, <<advice, offset, rc>>)]

\* let bytes_read = file.read_at(&mut buffer, offset)?;
\* hasher.update(&buffer[..bytes_read]);
ReadWindow(st, c, offset, outcome) ==
    IF outcome = "err"
    THEN [st EXCEPT !.reads = Append(@, offset), !.result = "Err"]
    ELSE [st EXCEPT !.reads = Append(@, offset),
                    !.input = Cat(@, read_at(c, offset, outcome))]

\* The statements from the i-th on, run one after the other; a ? that
\* returns ends the run.  failing: the positions, among the posix_fadvise
\* calls made, of those that return an error number.
RECURSIVE RunStatements(_, _, _, _, _, _)
RunStatements(stmts, i, st, c, io, failing) ==
    IF st.result = "Err" \/ i > Len(stmts) THEN st
    ELSE LET s == stmts[i]
             after ==
                 IF s.op = "read"
                 THEN ReadWindow(st, c, s.offset, io.rd[s.k])
                 ELSE Fadvise(st, s.op, s.offset,
                              FadviseRc(Len(st.hints) + 1 \in failing))
         IN  RunStatements(stmts, i + 1, after, c, io, failing)

\* compute_sample_hash built for Linux: File::open with its ?, the
\* statements of the Linux block, the size update and the return value.
\* hints: the posix_fadvise calls made, each with its return code.
compute_sample_hash_linux(c, io, failing) ==
    IF ~io.open
    THEN [result |-> "Err", hash |-> << >>, reads |-> << >>, hints |-> << >>]
    ELSE LET st == RunStatements(LinuxStatements(c.size), 1,
                       [result |-> "Ok", input |-> << >>,
                        reads |-> << >>, hints |-> << >>],
                       c, io, failing)
         IN  IF st.result = "Err"
             THEN [result |-> "Err", hash |-> << >>,
                   reads |-> st.reads, hints |-> st.hints]
             ELSE [result |-> "Ok",
                   hash |-> Blake3Hex(Cat(st.input,
                                          RunsOf(ToLeBytes(c.size)))),
                   reads |-> st.reads, hints |-> st.hints]

\* outcomes of the system calls of one compute_sample_hash
IoCases ==
    {[open |-> TRUE, rd |-> r] : r \in [1..3 -> ReadOutcomes]}
    \cup {[open |-> FALSE, rd |-> [k \in 1..3 |-> "full"]]}

AllRead == [open |-> TRUE, rd |-> [k \in 1..3 |-> "full"]]

HintFailures == {{}, {1}, {2, 3, 4}, {5, 6, 7}, 1..7}

\* The admission loop of one task over hashes in order, on an empty
\* registry: the hashes it keeps.
RECURSIVE AdmitInOrder(_, _)
AdmitInOrder(hashes, seen) ==
    IF hashes = << >> THEN << >>
    ELSE IF Head(hashes) \in seen THEN AdmitInOrder(Tail(hashes), seen)
    ELSE <<Head(hashes)>> \o AdmitInOrder(Tail(hashes), seen \cup {Head(hashes)})

\* content-type strings given to the classifier
MimeSamples ==
    {
      << >>,   \* the empty string
      <<105,109,97,103,101,47,112,110,103>>,   \* image/png
      <<118,105,100,101,111,47,109,112,52>>,   \* video/mp4
      <<116,101,120,116,47,112,108,97,105,110>>,   \* text/plain
      <<97,112,112,108,105,99,97,116,105,111,110,47,111,99,116,101,116,45,115,116,114,101,97,109>>,   \* application/octet-stream
      <<105,109,97,103,101>>,   \* image
      <<118,105,100,101,111>>,   \* video
      <<105,109,97,103,101,120,47,112,110,103>>,   \* imagex/png
      <<118,105,100,101,111,115,47,120>>,   \* videos/x
      <<105>>,   \* i
      <<118>>,   \* v
      <<47>>,   \* /
      <<105,109,97,103,101,47>> }   \* image/
CallStrategy ==
    /\ call = NoCall
    /\ \E n \in SizeSamples :
        call' = [fn |-> "strategy", arg |-> n, out |-> HashStrategy(n)]
    /\ UNCHANGED prog_vars

CallSampleHash ==
    /\ call = NoCall
    /\ \E c \in Contents, io \in IoCases, failing \in HintFailures :
        call' = [fn |-> "sample_hash",
                 arg |-> [c |-> c, io |-> io, failing |-> failing],
                 out |-> [linux |-> compute_sample_hash_linux(c, io, failing),
                          portable |-> compute_sample_hash_portable(c, io)]]
    /\ UNCHANGED prog_vars

\* two files of one size, the base content and another, fingerprinted by
\* process_single_file_ultra_fast and admitted in order
CallFileHash ==
    /\ call = NoCall
    /\ \E c \in Contents :
        LET h1 == FileHash(HashFile(BaseOf(c.size), AllRead.rd))
            h2 == FileHash(HashFile(c, AllRead.rd))
        IN  call' = [fn |-> "file_hash", arg |-> c,
                     out |-> [base |-> h1, hash |-> h2,
                              kept |-> AdmitInOrder(<<h1, h2>>, {})]]
    /\ UNCHANGED prog_vars

\* what num_cpus::get() and num_cpus::get_physical() return
CoreCounts == {1, 2, 3, 4, 5, 6, 8, 12, 16, 32, 64, 128, 1024}

\* scan_folder sizes its pool on a machine with these counts
CallThreadCount ==
    /\ call = NoCall
    /\ \E l \in CoreCounts, p \in CoreCounts :
        call' = [fn |-> "thread_count",
                 arg |-> [cpu_count |-> l, physical_cores |-> p],
                 out |-> [count |-> determine_optimal_thread_count(l, p),
                          pool |-> ThreadPoolSize(l, p)]]
    /\ UNCHANGED prog_vars

\* batch indices of one and of several digits
BatchIndexSamples == {0, 1, 2, 10, 11, 12, 110}

\* paths with digits and underscores at their start, inside and at their end
PathSamples ==
    { <<114,47,97>>,                  \* r/a
      <<95,114,47,97>>,               \* _r/a
      <<48,95,114,47,97>>,            \* 0_r/a
      <<49,95,114,47,97>>,            \* 1_r/a
      <<49,48,95,114,47,97>>,         \* 10_r/a
      <<49,47,48,95,97>>,             \* 1/0_a
      <<48,47,97>>,                   \* 0/a
      <<49,49,48,95,114,47,97>>,      \* 110_r/a
      <<114,47,97,95,49>>,            \* r/a_1
      <<50,95,49,95,114,47,97>> }     \* 2_1_r/a

\* a record of a file that a task admits
AdmittedRecord(path) ==
    process_single_file_ultra_fast(
        [path |-> path, size |-> 2000, data |-> path,
         win |-> <<path, path, path>>], "ok").meta

\* Two tasks, or one, store the records of two different files; then the
\* values of the result map are collected and sorted.
CallStoreResults ==
    /\ call = NoCall
    /\ \E b1 \in BatchIndexSamples, b2 \in BatchIndexSamples :
       \E p1 \in PathSamples : \E p2 \in PathSamples \ {p1} :
        LET stored == StoreResult(StoreResult(EmptyMap, b1, AdmittedRecord(p1)),
                                  b2, AdmittedRecord(p2))
            order == CHOOSE o \in Perms(DOMAIN stored) : TRUE
        IN  call' = [fn |-> "store_results",
                     arg |-> <<[batch_idx |-> b1, path |-> p1],
                               [batch_idx |-> b2, path |-> p2]>>,
                     out |-> [results |-> stored,
                              inventory |-> SortByFilename(
                                  [i \in 1..Len(order) |-> stored[order[i]]])]]
    /\ UNCHANGED prog_vars

CallClassify ==
    /\ call = NoCall
    /\ \E m \in MimeSamples :
        call' = [fn |-> "classify", arg |-> m,
                 out |-> determine_file_type_fast(m)]
    /\ UNCHANGED prog_vars

FnInit ==
    /\ call = NoCall
    /\ pool = EmptyMap
    /\ tree = {}
    /\ walk_order = << >>
    /\ run = "first"
    /\ prev_tuples = EmptyMap
    /\ io_fault = FALSE
    /\ pc = "start"
    /\ disc_md = {}
    /\ dir_batches = << >>
    /\ batch_results = << >>
    /\ io_failed = {}
    /\ task_pc = << >>
    /\ task_idx = << >>
    /\ seen_hashes = EmptyMap
    /\ results = EmptyMap
    /\ progress = 0
    /\ inventory = << >>
    /\ rendered = NotRendered
    /\ resp = "not_sent"
    /\ exit_code = -1

FnNext ==
    \/ CallStrategy
    \/ CallSampleHash
    \/ CallFileHash
    \/ CallClassify
    \/ CallThreadCount
    \/ CallStoreResults

FnSpec == FnInit /\ [][FnNext]_vars

(***************************************************************************)
(* The scan on the worker pool                                             *)
(***************************************************************************)
\* the machine of the pool runs: two logical processors on one core
Machine == [cpu_count |-> 2, physical_cores |-> 1]

\* ThreadPoolBuilder::new().num_threads(thread_count)
NumWorkers == ThreadPoolSize(Machine.cpu_count, Machine.physical_cores)

\* A chain of directories r, r/d, r/d/d, ... with one file a in each, all
\* of different content: up to one batch more than the pool has workers.
RECURSIVE ChainDir(_)
ChainDir(k) == IF k = 0 THEN ScanRoot ELSE ChainDir(k - 1) \o <<47, 100>>

ChainFile(k) == FileRec(ChainDir(k - 1) \o <<47, 97>>, Run(k, 2000 + k))

Chain(k) == {ChainFile(j) : j \in 1..k}

\* a second file of the root, r/b, and a file of the root that cannot be
\* read, r/c
SecondFile == FileRec(ScanRoot \o <<47, 98>>, Run(0, 2000))

BrokenFile == FileRec(ScanRoot \o <<47, 99>>, Run(0, 2000))

\* the trees scanned on the pool: the chains; the shorter chains with the
\* second file, then also with the unreadable one
ChainTrees ==
    {Chain(k) : k \in 0..(NumWorkers + 1)}
    \cup {Chain(k) \cup {SecondFile} : k \in 1..(NumWorkers - 1)}
    \cup {Chain(k) \cup {SecondFile, BrokenFile} : k \in 1..(NumWorkers - 2)}

\* what the system calls of a file return: an error for the unreadable file
PoolIo(path) == IF path = BrokenFile.path THEN "read_err" ELSE "ok"

\* Frames of the workers' stacks.  A job is the task of batch b, <<b, 0>>,
\* or its file i, <<b, i>>.  pool holds the tasks that were started and the
\* files that another frame than their task took, each with the frame it
\* runs on top of: the bottom of a worker that had nothing to do, the scope
\* of process_nested_folders_with_scope, or a task that waits.
TaskFrame(b) == <<b, 0>>
ScopeFrame == <<0, 0>>
Bottom == <<0, 1>>

FrameDone(fr) ==
    IF fr = ScopeFrame THEN pc # "scope"
    ELSE IF fr[2] = 0 THEN task_pc[fr[1]] = "finished"
    ELSE batch_results[fr[1]][fr[2]].state # "pending"

ActiveFrames == {fr \in DOMAIN pool : ~FrameDone(fr)}

\* nothing runs on top of the frame
IsTop(fr) == \A g \in ActiveFrames : pool[g] # fr

\* workers with a non-empty stack; custom_pool.install runs the scope on
\* one of them
BusyWorkers == 1 + Cardinality({fr \in ActiveFrames : pool[fr] = Bottom})

\* the files of a batch nobody has taken yet
Untaken(b) ==
    {i \in DOMAIN batch_results[b] :
        batch_results[b][i].state = "pending" /\ <<b, i>> \notin DOMAIN pool}

\* a frame whose worker looks for other jobs: the scope while it waits for
\* its tasks, a task that waits in collect() for files other workers took
WaitingFrames ==
    {fr \in {ScopeFrame} \cup {TaskFrame(b) : b \in DOMAIN task_pc} :
        /\ IsTop(fr)
        /\ \/ fr = ScopeFrame
           \/ /\ fr \in ActiveFrames
              /\ task_pc[fr[1]] = "map"
              /\ Untaken(fr[1]) = {}}

\* the worker of a file's own task, when it is running the parallel map
OwnFrame(job) ==
    IF job[2] # 0 /\ TaskFrame(job[1]) \in ActiveFrames /\ IsTop(TaskFrame(job[1]))
    THEN {TaskFrame(job[1])} ELSE {}

\* mutation of HostsFor: every job is queued for a worker with an empty
\* stack; a waiting frame runs nothing
HostsFor_IdleOnly(job) == IF BusyWorkers < NumWorkers THEN {Bottom} ELSE {}

\* The frames that may take a job that is ready.  A task is taken by a
\* worker with nothing to do or by a waiting frame.  The parallel map splits
\* its files in two halves: the task runs the first file itself and leaves
\* the others to whoever comes first, itself included.
HostsFor(job) ==
    IF job[2] = 1 THEN OwnFrame(job)
    ELSE (IF BusyWorkers < NumWorkers THEN {Bottom} ELSE {})
         \cup WaitingFrames \cup OwnFrame(job)

\* a worker takes the task scope.spawn queued for batch b
StartTask(b) ==
    /\ pc = "scope"
    /\ TaskFrame(b) \notin DOMAIN pool
    /\ \E host \in HostsFor(TaskFrame(b)) :
           pool' = MapInsert(pool, TaskFrame(b), host)
    /\ UNCHANGED <<call, tree, walk_order, run, prev_tuples, io_fault, pc, scan_vars,
                   main_vars>>

\* the worker of a task processes a file of its own batch
RunFile(b, i) ==
    /\ TaskFrame(b) \in HostsFor(<<b, i>>)
    /\ i \in Untaken(b)
    /\ ProcessFileIo(b, i, PoolIo(dir_batches[b].files[i]))
    /\ UNCHANGED pool

\* another frame takes file i of the parallel map of batch b
StartFile(b, i) ==
    /\ pc = "scope"
    /\ TaskFrame(b) \in DOMAIN pool
    /\ task_pc[b] = "map"
    /\ i \in Untaken(b)
    /\ \E host \in HostsFor(<<b, i>>) \ {TaskFrame(b)} :
           pool' = MapInsert(pool, <<b, i>>, host)
    /\ UNCHANGED <<call, tree, walk_order, run, prev_tuples, io_fault, pc, scan_vars,
                   main_vars>>

\* a finished job leaves its worker's stack
Retire(fr) == [pool EXCEPT ![fr] = Bottom]

\* the file operation of a file taken by another frame returns
FinishFile(b, i) ==
    /\ <<b, i>> \in DOMAIN pool
    /\ ProcessFileIo(b, i, PoolIo(dir_batches[b].files[i]))
    /\ pool' = Retire(<<b, i>>)

\* the worker of a task whose parallel map has every result goes on to the
\* progress increment
TaskBulkProgress(b) ==
    /\ TaskFrame(b) \in DOMAIN pool
    /\ IsTop(TaskFrame(b))
    /\ BulkProgress(b)

\* the task leaves its worker's stack with the last element of its loop
RetireWhenFinished(b) ==
    pool' = IF task_pc'[b] = "finished" THEN Retire(TaskFrame(b)) ELSE pool

\* the steps of the admission loop, on the worker of the task
TaskAdmitCheck(b) ==
    /\ TaskFrame(b) \in DOMAIN pool
    /\ AdmitCheckStep(b)
    /\ RetireWhenFinished(b)

TaskInsertSeen(b) ==
    /\ TaskFrame(b) \in DOMAIN pool
    /\ InsertSeen(b)

TaskInsertResult(b) ==
    /\ TaskFrame(b) \in DOMAIN pool
    /\ InsertResultStep(b)
    /\ RetireWhenFinished(b)

\* discover_nested_structure has returned the batches of a chain tree,
\* every metadata lookup answered
PoolInit ==
    /\ call = NoCall
    /\ pool = EmptyMap
    /\ tree \in ChainTrees
    /\ walk_order \in WalkOrders
    /\ run = "first"
    /\ prev_tuples = EmptyMap
    /\ io_fault = FALSE
    /\ pc = "discovered"
    /\ disc_md = {f.path : f \in tree}
    /\ LET maps == GroupedMaps(disc_md)
       IN  \E iter \in Perms(DOMAIN maps.files) :
               dir_batches = BatchesOf(maps, iter)
    /\ batch_results = << >>
    /\ io_failed = {}
    /\ task_pc = << >>
    /\ task_idx = << >>
    /\ seen_hashes = EmptyMap
    /\ results = EmptyMap
    /\ progress = 0
    /\ inventory = << >>
    /\ rendered = NotRendered
    /\ resp = "not_sent"
    /\ exit_code = -1

PoolNext ==
    \/ \E b \in DOMAIN task_pc : TaskBulkProgress(b)
    \/ \E b \in DOMAIN task_pc : TaskAdmitCheck(b)
    \/ \E b \in DOMAIN task_pc : TaskInsertSeen(b)
    \/ \E b \in DOMAIN task_pc : TaskInsertResult(b)
    \/ \E b \in DOMAIN batch_results :
           \E i \in DOMAIN batch_results[b] : RunFile(b, i)
    \/ \E b \in DOMAIN batch_results :
           \E i \in DOMAIN batch_results[b] : FinishFile(b, i)
    \/ \E b \in DOMAIN task_pc : StartTask(b)
    \/ \E b \in DOMAIN batch_results :
           \E i \in DOMAIN batch_results[b] : StartFile(b, i)
    \/ Dispatch
    \/ Collect

\* the workers are scheduled fairly: a pool that can take a step takes one
PoolSpec == PoolInit /\ [][PoolNext]_vars /\ WF_vars(PoolNext)

(***************************************************************************)
(* The scan of a tree of very large files                                  *)
(***************************************************************************)
\* r/a.bin and r/d/b.bin: 200 MiB of bytes 0 but for bytes 1 between the
\* first and the middle window (r/a.bin) or between the middle and the
\* last window (r/d/b.bin): the same bytes in the three windows.
\* r/d/c.bin: 3 * 64 KiB + 8 bytes: those three windows one after the
\* other, then the 8 bytes of 209715200 as a little-endian u64.
LargeFiles ==
    { FileRec(<<114,47,97,46,98,105,110>>,
              ContentRuns([size |-> 209715200, lo |-> SAMPLE_SIZE,
                           hi |-> 104857600])),                      \* r/a.bin
      FileRec(<<114,47,100,47,98,46,98,105,110>>,
              ContentRuns([size |-> 209715200, lo |-> 104857600 + SAMPLE_SIZE,
                           hi |-> 209715200 - SAMPLE_SIZE])),        \* r/d/b.bin
      FileRec(<<114,47,100,47,99,46,98,105,110>>,
              Cat(Run(0, 3 * SAMPLE_SIZE),
                  RunsOf(ToLeBytes(209715200)))) }                   \* r/d/c.bin

LargeTrees == SUBSET LargeFiles

LargeInit ==
    /\ call = NoCall
    /\ pool = EmptyMap
    /\ tree \in LargeTrees
    /\ walk_order \in WalkOrders
    /\ run = "first"
    /\ prev_tuples = EmptyMap
    /\ io_fault = FALSE
    /\ pc = "start"
    /\ disc_md = {}
    /\ dir_batches = << >>
    /\ batch_results = << >>
    /\ io_failed = {}
    /\ task_pc = << >>
    /\ task_idx = << >>
    /\ seen_hashes = EmptyMap
    /\ results = EmptyMap
    /\ progress = 0
    /\ inventory = << >>
    /\ rendered = NotRendered
    /\ resp = "not_sent"
    /\ exit_code = -1

LargeSpec == LargeInit /\ [][Next]_vars

(***************************************************************************)
(* Vocabulary of the properties                                            *)
(***************************************************************************)
\* scan_folder has returned: inventory is its result
Returned == pc \in {"returned", "rendered", "exited"}

\* positions (batch, file) of the batch tasks
Slots ==
    UNION {{<<b, i>> : i \in DOMAIN batch_results[b]} : b \in DOMAIN batch_results}

\* the records of the files that were fingerprinted successfully
Fingerprinted ==
    {batch_results[s[1]][s[2]].meta :
        s \in {t \in Slots : batch_results[t[1]][t[2]].state = "some"}}

Range(f) == {f[x] : x \in DOMAIN f}

IsHidden(path) == StartsWith(FileName(path), <<46>>)

\* the files of the tree that satisfy the filter as the walk evaluated it
Filtered ==
    {e.path : e \in {x \in WalkEntries : Accepted(x, disc_md)}}

\* C1: the inventory has exactly one record per distinct fingerprint of the
\* files fingerprinted successfully, under every interleaving
C1_DedupExact ==
    Returned =>
        /\ Len(inventory) = Cardinality({m.hash : m \in Fingerprinted})
        /\ \A i, j \in DOMAIN inventory :
               i # j => inventory[i].hash # inventory[j].hash

\* C2: within one scan an entry of the registry is never removed and never
\* mapped to another path
C2_RegistryStable ==
    [][run' = run =>
        \A h \in DOMAIN seen_hashes :
            h \in DOMAIN seen_hashes' /\ seen_hashes'[h] = seen_hashes[h]]_vars

\* C3: the fingerprints of the inventory are exactly the fingerprints of the
\* files fingerprinted successfully, whatever the schedule
C3_FingerprintSet ==
    Returned =>
        {inventory[i].hash : i \in DOMAIN inventory}
            = {m.hash : m \in Fingerprinted}

\* C3 witness: a returned scan of two batches that share a fingerprint and
\* hold a second one
C3_Witness ==
    /\ Returned
    /\ Len(dir_batches) >= 2
    /\ Cardinality({m.hash : m \in Fingerprinted}) >= 2
    /\ \E m1, m2 \in Fingerprinted :
           m1.hash = m2.hash /\ m1.folder # m2.folder

\* C4: no record of the inventory is smaller than 1024 bytes or has a
\* hidden base name, whatever the metadata lookups returned
C4_FilterCorrect ==
    Returned =>
        \A i \in DOMAIN inventory :
            /\ inventory[i].size >= MIN_FILE_SIZE
            /\ ~IsHidden(inventory[i].filename)

\* C5: a second scan of the unchanged tree, no lookup or read failing in
\* either run, gives the same (fingerprint, size, content_type, category)
\* multiset as the first
C5_Idempotent ==
    (run = "rescan" /\ Returned /\ ~io_fault) =>
        TupleBag(inventory) = prev_tuples

\* C6: the inventory is strictly ascending by path
C6_Sorted ==
    Returned =>
        \A i \in 1..(Len(inventory) - 1) :
            LexLess(inventory[i].filename, inventory[i + 1].filename)

\* C6 witness: an inventory of at least two records from two batches
C6_Witness ==
    /\ Returned
    /\ \E i, j \in DOMAIN inventory : inventory[i].folder # inventory[j].folder

\* C7: the batches partition the filtered files: each filtered file is at
\* exactly one position of one batch, a batch holds filtered files only,
\* and the parent directory of each file is its batch's path
C7_BatchPartition ==
    pc = "discovered" =>
        LET pos == UNION {{<<b, i>> : i \in DOMAIN dir_batches[b].files} :
                             b \in DOMAIN dir_batches}
            at(s) == dir_batches[s[1]].files[s[2]]
        IN  /\ \A p \in Filtered : Cardinality({s \in pos : at(s) = p}) = 1
            /\ \A s \in pos : at(s) \in Filtered
            /\ \A s \in pos : ParentPath(at(s)) = dir_batches[s[1]].path

\* C7 witness: discovery gave two batches and the filter rejected a file of
\* the tree
C7_Witness ==
    /\ pc = "discovered"
    /\ Len(dir_batches) >= 2
    /\ \E f \in tree : f.path \notin Filtered

\* a step of the scan between the spawn of the tasks and the return
ScanStep ==
    \/ \E b \in DOMAIN batch_results :
           \E i \in DOMAIN batch_results[b] : ProcessFile(b, i)
    \/ \E b \in DOMAIN task_pc :
           BulkProgress(b) \/ AdmitCheck(b) \/ InsertSeen(b) \/ InsertResult(b)
    \/ Collect

\* C8: a file with a failed metadata lookup, open, read or map yields None
\* and has no entry in the registry, the result map or the inventory; a
\* batch whose files all failed inserts nothing and its task is not
\* blocked; the scan can always go on to its return; and every fingerprint
\* of the files that succeeded is in the inventory
C8_FailureIsolated ==
    /\ \A s \in Slots :
           dir_batches[s[1]].files[s[2]] \in io_failed =>
               batch_results[s[1]][s[2]] = None
    /\ \A p \in io_failed :
           /\ p \notin Range(seen_hashes)
           /\ \A k \in DOMAIN results : results[k].filename # p
           /\ \A i \in DOMAIN inventory : inventory[i].filename # p
    /\ \A b \in DOMAIN batch_results :
           (\A i \in DOMAIN batch_results[b] :
                  dir_batches[b].files[i] \in io_failed) =>
               /\ task_pc[b] \in {"map", "check", "finished"}
               /\ (pc = "scope" /\ task_pc[b] = "map") => ENABLED BulkProgress(b)
               /\ (pc = "scope" /\ task_pc[b] = "check") => ENABLED AdmitCheck(b)
    /\ (pc = "scope" /\ io_failed # {}) => ENABLED ScanStep
    /\ (Returned /\ io_failed # {}) =>
           \A m \in Fingerprinted :
               \E i \in DOMAIN inventory : inventory[i].hash = m.hash

\* C8 witness: the scan returned a record although every file of one batch
\* failed and, in another batch, one file failed and one succeeded
C8_Witness ==
    /\ Returned
    /\ inventory # << >>
    /\ \E b \in DOMAIN batch_results :
           \A i \in DOMAIN batch_results[b] : dir_batches[b].files[i] \in io_failed
    /\ \E b \in DOMAIN batch_results :
           /\ \E i \in DOMAIN batch_results[b] :
                  dir_batches[b].files[i] \in io_failed
           /\ \E i \in DOMAIN batch_results[b] : batch_results[b][i].state = "some"

\* C9: a non-success HTTP status makes the run end as failed
C9_HttpErrorSurfaced ==
    (pc = "exited" /\ resp = "http_error") => exit_code # 0

\* C10: an upload that fails with a transport error ends the run with
\* status 1, leaves the inventory as it was, and comes after the inventory
\* was rendered
C10_TransportFailure ==
    [][(pc = "rendered" /\ resp' = "transport_error") =>
          /\ pc' = "exited"
          /\ exit_code' = 1
          /\ inventory' = inventory
          /\ rendered' = rendered
          /\ rendered # NotRendered
          /\ rendered.records = inventory]_vars

\* C10 witness: a run over a non-empty inventory ended after a transport
\* error of the upload
C10_Witness ==
    /\ pc = "exited"
    /\ resp = "transport_error"
    /\ inventory # << >>

(***************************************************************************)
(* Hashing strategies and the classifier                                   *)
(***************************************************************************)
\* C12: the strategy depends on the size alone: above 100 MiB (104857600
\* bytes) the sampled one, above 10 MiB (10485760 bytes) up to 100 MiB the
\* mapped one, up to 10 MiB the direct read; the fingerprint of a file is
\* the result of that one strategy.
C12_StrategyBoundaries ==
    /\ call.fn = "strategy" =>
          call.out = IF call.arg > 104857600 THEN "sample"
                     ELSE IF call.arg > 10485760 THEN "mmap"
                     ELSE "read"
    /\ call.fn = "file_hash" =>
          LET f == HashFile(call.arg, AllRead.rd)
          IN  call.out.hash = IF call.arg.size > 104857600
                              THEN compute_sample_hash(f)
                              ELSE Blake3Hex(f.data)

\* a file of exactly 100 MiB is mapped
C12_Witness ==
    /\ call.fn = "strategy"
    /\ call.arg = 104857600
    /\ call.out = "mmap"

\* C13: a successful compute_sample_hash hashes the bytes read at 0, then
\* those read at size/2 if size > 128 KiB, then those read at size - 64 KiB
\* if size > 64 KiB, then the size as 8 little-endian bytes, and reads at
\* no other offset; every window is at most 64 KiB long.
C13_SampledInput ==
    (call.fn = "sample_hash" /\ call.out.linux.result = "Ok") =>
        LET n == call.arg.c.size
            got(k, offset) == read_at(call.arg.c, offset, call.arg.io.rd[k])
            mid == IF n > 131072 THEN got(2, n \div 2) ELSE << >>
            end == IF n > 65536 THEN got(3, n - 65536) ELSE << >>
            size_block == <<n % 256, (n \div 256) % 256, (n \div 65536) % 256,
                            (n \div 16777216) % 256, 0, 0, 0, 0>>
            offsets == <<0>> \o (IF n > 131072 THEN <<n \div 2>> ELSE << >>)
                             \o (IF n > 65536 THEN <<n - 65536>> ELSE << >>)
        IN  /\ call.out.linux.hash
                  = Blake3Hex(Cat(Cat(Cat(got(1, 0), mid), end),
                                  RunsOf(size_block)))
            /\ call.out.linux.reads = offsets
            /\ call.out.portable.hash = call.out.linux.hash
            /\ \A k \in 1..3 :
                  LET w == got(k, SampleOffsets(n)[k])
                  IN  ByteLen(w) <= 65536

\* a 200 MiB file whose middle read is short and whose three windows differ
\* from the base content
C13_Witness ==
    /\ call.fn = "sample_hash"
    /\ call.out.linux.result = "Ok"
    /\ call.arg.c.size = 209715200
    /\ call.arg.io.rd = <<"full", "short", "full">>
    /\ call.arg.c.lo = 0
    /\ call.arg.c.hi = 209715200
    /\ Len(call.out.linux.reads) = 3

\* C14: two files of one size above 100 MiB that differ only inside their
\* last 64 KiB get different fingerprints, and the admission loop keeps
\* both.
C14_TailDiffers ==
    (/\ call.fn = "file_hash"
     /\ call.arg.size > 104857600
     /\ call.arg.lo < call.arg.hi
     /\ call.arg.lo >= call.arg.size - 65536) =>
        /\ call.out.hash # call.out.base
        /\ call.out.kept = <<call.out.base, call.out.hash>>

\* two 200 MiB files that differ in their last byte only
C14_Witness ==
    /\ call.fn = "file_hash"
    /\ call.arg = [size |-> 209715200, lo |-> 209715199, hi |-> 209715200]
    /\ Len(call.out.kept) = 2

\* C15: for every content-type string, the empty one included, the
\* classifier returns image if the top-level part is image, video if it is
\* video, and other otherwise; it never panics.  The top-level part is what
\* stands before the first '/'; a string without '/' has none.
C15_ClassifierTotal ==
    call.fn = "classify" =>
        LET s == call.arg
            slashes == {i \in 1..Len(s) : s[i] = 47}
            top_level == IF slashes = {} THEN << >>
                         ELSE SubSeq(s, 1, (CHOOSE i \in slashes :
                                               \A j \in slashes : i <= j) - 1)
        IN
        call.out = IF top_level = <<105,109,97,103,101>> THEN "image"
                   ELSE IF top_level = <<118,105,100,101,111>> THEN "video"
                   ELSE "other"

\* C16: for the same outcome of open and of each read, the Linux build,
\* which issues advisory hints, and the builds that issue none return the
\* same result and the same fingerprint and read at the same offsets,
\* whichever hints fail; the hints issued are those of the size and of the
\* reads, whatever the hints before them returned.
C16_HintsInert ==
    call.fn = "sample_hash" =>
        /\ call.out.linux.result = call.out.portable.result
        /\ call.out.linux.hash = call.out.portable.hash
        /\ call.out.linux.reads = call.out.portable.reads
        /\ [i \in 1..Len(call.out.linux.hints) |-> call.out.linux.hints[i][1]]
               = HintCalls(call.arg.c.size, call.arg.io)

\* each of the seven hints of a 200 MiB file is issued and returns an error
\* number, and the fingerprint is returned
C16_Witness ==
    /\ call.fn = "sample_hash"
    /\ call.arg.c.size = 209715200
    /\ Len(call.out.linux.hints) = 7
    /\ \A i \in 1..7 : call.out.linux.hints[i][3] # 0
    /\ call.out.linux.result = "Ok"
    /\ Len(call.out.linux.reads) = 3

(***************************************************************************)
(* Empty scans, the order of the steps of a scan, batch depths             *)
(***************************************************************************)
\* C11: when no file under the root passes the filter (an empty root
\* included), discovery returns no batch and the scan returns an empty
\* inventory as a normal result: the return is always possible, no batch
\* task exists, the registry and the result map stay empty, nothing is
\* fingerprinted and no file operation has failed in a task.
C11_EmptyScan ==
    (/\ pc # "start"
     /\ \A f \in tree : ~should_process_file(f, f.path \in disc_md)) =>
        /\ dir_batches = << >>
        /\ pc # "scope"
        /\ pc = "discovered" => ENABLED Dispatch
        /\ batch_results = << >>
        /\ task_pc = << >>
        /\ Fingerprinted = {}
        /\ io_failed = {}
        /\ seen_hashes = EmptyMap
        /\ results = EmptyMap
        /\ progress = 0
        /\ Returned => inventory = << >>

\* C11 witness: the scan of a root whose files are all hidden or too small
\* has returned
C11_Witness ==
    /\ pc = "returned"
    /\ Cardinality(tree) = 2
    /\ \A f \in tree : ~should_process_file(f, f.path \in disc_md)
    /\ inventory = << >>
    /\ task_pc = << >>

\* C17: a batch task looks up or inserts in the registry, and stores
\* results, only when no file of its batch is still being processed; it adds
\* to the progress counter in one step, when it leaves the parallel map,
\* the number of files of the batch that were fingerprinted, and never
\* returns to the map; while the tasks run no other step moves the counter.
C17_BulkAfterMap ==
    [][/\ \A b \in DOMAIN task_pc \cap DOMAIN task_pc' :
           (task_pc'[b] # task_pc[b] \/ task_idx'[b] # task_idx[b]) =>
               /\ \A i \in DOMAIN batch_results[b] :
                      batch_results[b][i].state # "pending"
               /\ task_pc'[b] # "map"
               /\ progress' = IF task_pc[b] = "map"
                              THEN progress + Cardinality(
                                     {i \in DOMAIN batch_results[b] :
                                         batch_results[b][i].state = "some"})
                              ELSE progress
       /\ (pc = "scope" /\ (seen_hashes' # seen_hashes \/ results' # results)) =>
              \E b \in DOMAIN task_pc :
                  /\ task_pc[b] \in {"insert_seen", "insert_result"}
                  /\ \A i \in DOMAIN batch_results[b] :
                         batch_results[b][i].state # "pending"
       /\ (progress' # progress /\ pc' = "scope") =>
              \E b \in DOMAIN task_pc \cap DOMAIN task_pc' :
                  task_pc[b] = "map" /\ task_pc'[b] = "check"
      ]_vars

\* C17 witness: a task has finished a batch of two fingerprinted files and
\* counted them while another batch still has a file in the map
C17_Witness ==
    /\ pc = "scope"
    /\ progress = 2
    /\ \E b \in DOMAIN task_pc :
           /\ task_pc[b] = "finished"
           /\ Len(batch_results[b]) = 2
           /\ \A i \in DOMAIN batch_results[b] : batch_results[b][i].state = "some"
    /\ \E c \in DOMAIN task_pc :
           /\ task_pc[c] = "map"
           /\ \E i \in DOMAIN batch_results[c] : batch_results[c][i].state = "pending"

\* C18: the step that reads the result map and sorts is taken only when
\* every spawned batch task has finished; a record stored in the result map
\* stays there until then, so the inventory holds exactly the records the
\* tasks admitted; and once scan_folder has returned, no task moves and the
\* registry, the result map and the inventory do not change in that run.
C18_CollectAfterJoin ==
    [][/\ (pc = "scope" /\ pc' # "scope") =>
              /\ \A b \in DOMAIN task_pc : task_pc[b] = "finished"
              /\ Len(task_pc) = Len(dir_batches)
              /\ {inventory'[i] : i \in DOMAIN inventory'}
                     = {results[k] : k \in DOMAIN results}
              /\ Len(inventory') = Cardinality(DOMAIN results)
       /\ (pc = "scope" /\ results' # results) =>
              /\ pc' = "scope"
              /\ \A k \in DOMAIN results :
                     k \in DOMAIN results' /\ results'[k] = results[k]
       /\ (Returned /\ pc' # "start") =>
              /\ results' = results
              /\ seen_hashes' = seen_hashes
              /\ task_pc' = task_pc
              /\ task_idx' = task_idx
              /\ batch_results' = batch_results
              /\ inventory' = inventory
      ]_vars

\* C18 witness: scan_folder returned the records admitted by two tasks
C18_Witness ==
    /\ pc = "returned"
    /\ Len(task_pc) = 2
    /\ \A b \in DOMAIN task_pc : task_pc[b] = "finished"
    /\ Len(inventory) = 3
    /\ Cardinality(DOMAIN results) = 3

\* C20: the depth recorded for each batch is the number of path components
\* of the batch's parent-directory path.
C20_DepthOfParent ==
    pc = "discovered" =>
        \A b \in DOMAIN dir_batches :
            dir_batches[b].depth = ComponentCount(dir_batches[b].path)

\* C19: with every file operation returning and the workers scheduled
\* fairly, every scan returns, whatever the number of batches relative to
\* the number of workers.
C19_ScanCompletes == <>(pc = "returned")

\* C19 witness: a scan of more batches than the pool has workers has
\* returned every file
C19_Witness ==
    /\ pc = "returned"
    /\ Len(dir_batches) > NumWorkers
    /\ Len(inventory) = Len(dir_batches)
    /\ \A b \in DOMAIN task_pc : task_pc[b] = "finished"

(***************************************************************************)
(* The order of the batches, the worker count, keys and fingerprints       *)
(***************************************************************************)
\* C21: the batches discover_nested_structure returns are in descending
\* order of depth: a batch is never deeper than a batch before it, whatever
\* the order of the walk and of the grouping map.
C21_DepthDescending ==
    pc # "start" =>
        \A i, j \in DOMAIN dir_batches :
            i < j => dir_batches[i].depth >= dir_batches[j].depth

\* C21 witness: discovery returned the batch of r/d before the batch of r
C21_Witness ==
    /\ pc = "discovered"
    /\ Len(dir_batches) = 2
    /\ dir_batches[1].depth > dir_batches[2].depth
    /\ Len(dir_batches[1].files) = 2

\* C22: for logical and physical counts of at least 1 the thread count is
\* max(min(logical * 2, physical * 4), 4): at least 4, with no upper limit,
\* and it is the number of workers scan_folder asks its pool for.
C22_ThreadCount ==
    call.fn = "thread_count" =>
        LET l == call.arg.cpu_count
            p == call.arg.physical_cores
            m == IF l * 2 <= p * 4 THEN l * 2 ELSE p * 4
        IN  /\ call.out.count = (IF m >= 4 THEN m ELSE 4)
            /\ call.out.count >= 4
            /\ call.out.pool = call.out.count

\* C22 witness: one logical processor on one core gives a pool of 4
C22_Witness ==
    /\ call.fn = "thread_count"
    /\ call.arg = [cpu_count |-> 1, physical_cores |-> 1]
    /\ call.out = [count |-> 4, pool |-> 4]

\* C23: two files of one batch with the same fingerprint are never both
\* admitted, under every interleaving with the other tasks: when the loop
\* of their task reaches the second one, the fingerprint is in the
\* registry and the loop skips it; the result map and the inventory never
\* hold two records of one directory with the same fingerprint.
C23_SameBatchDedup ==
    /\ \A b \in DOMAIN task_pc :
           \A i, j \in DOMAIN batch_results[b] :
               (/\ i < j
                /\ task_pc[b] # "map"
                /\ task_idx[b] >= j
                /\ batch_results[b][i].state = "some"
                /\ batch_results[b][j].state = "some"
                /\ batch_results[b][i].meta.hash = batch_results[b][j].meta.hash) =>
                   /\ batch_results[b][j].meta.hash \in DOMAIN seen_hashes
                   /\ task_idx[b] = j => task_pc[b] = "check"
    /\ \A k1, k2 \in DOMAIN results :
           (k1 # k2 /\ results[k1].folder = results[k2].folder) =>
               results[k1].hash # results[k2].hash
    /\ Returned =>
           \A i, j \in DOMAIN inventory :
               (i # j /\ inventory[i].folder = inventory[j].folder) =>
                   inventory[i].hash # inventory[j].hash

\* C23 witness: a scan returned one record of a batch of two files of the
\* same fingerprint, and a record of another batch
C23_Witness ==
    /\ Returned
    /\ \E b \in DOMAIN batch_results :
           /\ Len(batch_results[b]) = 2
           /\ \A i \in 1..2 : batch_results[b][i].state = "some"
           /\ batch_results[b][1].meta.hash = batch_results[b][2].meta.hash
           /\ Cardinality({i \in DOMAIN inventory :
                              inventory[i].folder = dir_batches[b].path}) = 1
    /\ Len(inventory) >= 2

\* C24: storing the record of an admitted file never replaces the record of
\* another admitted file: the keys of two different files differ, whatever
\* their batch indices and whatever digits and underscores their paths
\* hold, so the result map and the inventory have one record per admission.
C24_NoOverwrite ==
    call.fn = "store_results" =>
        LET paths == {call.arg[1].path, call.arg[2].path}
        IN  /\ Cardinality(DOMAIN call.out.results) = 2
            /\ {call.out.results[k].filename : k \in DOMAIN call.out.results}
                   = paths
            /\ Len(call.out.inventory) = 2
            /\ {call.out.inventory[i].filename : i \in 1..2} = paths

\* C24 witness: batch 1 stores 0_r/a and batch 10 stores _r/a
C24_Witness ==
    /\ call.fn = "store_results"
    /\ call.arg = <<[batch_idx |-> 1, path |-> <<48,95,114,47,97>>],
                    [batch_idx |-> 10, path |-> <<95,114,47,97>>]>>
    /\ Cardinality(DOMAIN call.out.results) = 2

\* C25: two files above 100 MiB of one size with the same bytes in the
\* windows at 0, at size/2 and at size - 64 KiB get the same fingerprint,
\* whatever their other bytes, and a scan never returns both of them.
C25_SampledTwins ==
    \A m1, m2 \in Fingerprinted :
        LET f1 == FileAt(m1.filename)
            f2 == FileAt(m2.filename)
        IN  (/\ f1 # f2
             /\ f1.size = f2.size
             /\ f1.size > 104857600
             /\ f1.win = f2.win) =>
                /\ m1.hash = m2.hash
                /\ Returned =>
                       Cardinality({i \in DOMAIN inventory :
                           inventory[i].filename \in {f1.path, f2.path}}) <= 1

\* C26: a file fingerprinted by the sampled strategy and a file of another
\* size and content fingerprinted in full never get the same fingerprint,
\* and every file fingerprinted in a scan has a record of its fingerprint
\* and of its own size in the inventory.
C26_StrategiesApart ==
    /\ \A m1, m2 \in Fingerprinted :
           LET f1 == FileAt(m1.filename)
               f2 == FileAt(m2.filename)
           IN  (/\ f1.size > 104857600
                /\ f2.size <= 104857600
                /\ f1.data # f2.data) => m1.hash # m2.hash
    /\ Returned =>
           \A m \in Fingerprinted :
               \E i \in DOMAIN inventory :
                   inventory[i].hash = m.hash /\ inventory[i].size = m.size

====
